---- MODULE Spec2Model ----
(***************************************************************************)
(* Model of the Earth Engine script environment-data.js: the extraction of *)
(* environmental covariates for the events of the Fire and NonFire         *)
(* collections, and the two table exports.                                 *)
(*                                                                         *)
(* Conventions.  An Earth Engine value that may be null is a sequence of   *)
(* length at most one: Null is <<>>, a present value v is <<v>>.  Instants  *)
(* are hours since 1970-01-01T00:00 (the sources are hourly at the finest). *)
(* Temperatures are hundredths of a degree, so that multiply(0.02) and     *)
(* subtract(273.15) stay in the integers.  A raster is a function from the *)
(* pixels of a small grid to a value or Null (a masked pixel); a geometry  *)
(* is the set of pixels it intersects at the reduction scale.              *)
(***************************************************************************)
EXTENDS Integers, Sequences, FiniteSets, TLC

VARIABLES assets, pc, frame, result, task, runs, previous

vars == <<assets, pc, frame, result, task, runs, previous>>

\* ------------------------------------------------------------------ bounds

\* The largest number of events in a collection.
MaxEvents == 2
\* How many times an export task may be run.
MaxRuns == 2

\* ------------------------------------------------------- program constants

\* multiply(0.02): hundredths of a kelvin per digital number.
LstScale == 2
\* subtract(273.15), in hundredths of a degree.
KelvinOffset == 27315
\* calendarRange(14, 14, 'hour').
Era5Hour == 14
\* advance(-1, 'day') and advance(1, 'day').
WindowDays == 1
\* advance(-3, 'year') and advance(3, 'year').
PopWindowYears == 3

\* ------------------------------------------------------------ null values

Null == <<>>
Some(v) == <<v>>
Val(x) == x[1]

\* --------------------------------------------------------------- calendar

\* Days from 1970-01-01 to the civil date y-m-d (proleptic Gregorian).
DaysFromCivil(y, m, d) ==
  LET yy == IF m <= 2 THEN y - 1 ELSE y
      era == yy \div 400
      yoe == yy - era * 400
      mp == IF m > 2 THEN m - 3 ELSE m + 9
      doy == (153 * mp + 2) \div 5 + d - 1
      doe == yoe * 365 + yoe \div 4 - yoe \div 100 + doy
  IN era * 146097 + doe - 719468

\* The civil date of a day number.
CivilFromDays(z) ==
  LET zz == z + 719468
      era == zz \div 146097
      doe == zz - era * 146097
      yoe == (doe - doe \div 1460 + doe \div 36524 - doe \div 146096) \div 365
      doy == doe - (365 * yoe + yoe \div 4 - yoe \div 100)
      mp == (5 * doy + 2) \div 153
      d == doy - (153 * mp + 2) \div 5 + 1
      m == IF mp < 10 THEN mp + 3 ELSE mp - 9
  IN [y |-> yoe + era * 400 + (IF m <= 2 THEN 1 ELSE 0), m |-> m, d |-> d]

IsLeap(y) == (y % 4 = 0 /\ y % 100 # 0) \/ y % 400 = 0

DaysInMonth(y, m) ==
  IF m = 2 THEN (IF IsLeap(y) THEN 29 ELSE 28)
  ELSE IF m \in {4, 6, 9, 11} THEN 30 ELSE 31

\* ee.Date(value): the instant of an ISO date-time, given as its fields; Null
\* stands for the error Earth Engine raises on a null or unparsable value.
eeDate(value) ==
  IF value = Null THEN Null
  ELSE LET c == Val(value) IN
       IF /\ c.m \in 1..12
          /\ c.d \in 1..DaysInMonth(c.y, c.m)
          /\ c.h \in 0..23
       THEN Some(DaysFromCivil(c.y, c.m, c.d) * 24 + c.h)
       ELSE Null

\* date.advance(delta, unit), unit 'day' or 'year': calendar arithmetic, the
\* hour of day kept, the day of month clipped to the month's length.
advance(date, delta, unit) ==
  IF unit = "day" THEN date + 24 * delta
  ELSE LET c == CivilFromDays(date \div 24)
           y == c.y + delta
           d == IF c.d > DaysInMonth(y, c.m) THEN DaysInMonth(y, c.m) ELSE c.d
       IN DaysFromCivil(y, c.m, d) * 24 + (date % 24)

\* The hour of day of an instant (what calendarRange(.., 'hour') reads).
HourOf(t) == t % 24

\* ------------------------------------------------- Earth Engine: properties

\* element.get(name): the property, or null when the element has none.
get(props, name) == IF name \in DOMAIN props THEN props[name] ELSE Null

\* The last element: what a reversed sort before first() would give.
lastElement(collection) ==
  IF Len(collection) = 0 THEN Null ELSE Some(collection[Len(collection)])

\* collection.first(): the first element, or null for an empty collection.
first(collection) == IF Len(collection) = 0 THEN Null ELSE Some(collection[1])

\* featureCollection.select(names): the geometry and the named properties.
fcSelect(collection, names) ==
  [i \in 1..Len(collection) |->
     [geometry |-> collection[i].geometry,
      props |-> [n \in names \cap DOMAIN collection[i].props |->
                   collection[i].props[n]]]]

\* featureCollection.filter(ee.Filter.eq(name, value)); a null never matches.
fcFilterEq(collection, name, value) ==
  SelectSeq(collection,
            LAMBDA f : value # Null /\ get(f.props, name) = value)

\* ---------------------------------------------------- Earth Engine: images

Pixels == {1, 2}

\* image.select(bands)
imgSelect(img, names) ==
  [props |-> img.props, bands |-> [b \in names |-> img.bands[b]]]

\* Band arithmetic with a constant: masked pixels stay masked, and the result
\* carries none of the operand's properties.
imgLinear(img, mul, sub) ==
  [props |-> <<>>,
   bands |-> [b \in DOMAIN img.bands |->
                [p \in Pixels |->
                   IF img.bands[b][p] = Null THEN Null
                   ELSE Some(Val(img.bands[b][p]) * mul - sub)]]]

\* image.copyProperties(source, names)
copyProperties(img, source, names) ==
  [props |-> [n \in DOMAIN img.props \cup (names \cap DOMAIN source.props) |->
                IF n \in names \cap DOMAIN source.props
                THEN source.props[n] ELSE img.props[n]],
   bands |-> img.bands]

\* The integer square root (exact on the squares the model's winds give).
Isqrt(n) == CHOOSE r \in 0..n : r * r <= n /\ n < (r + 1) * (r + 1)

\* image.expression('sqrt(u**2 + v**2)', {u, v}): one band, named after the
\* first band of the left-most operand, masked where either operand is.
windExpression(u, v) ==
  LET ub == CHOOSE b \in DOMAIN u.bands : TRUE
      vb == CHOOSE b \in DOMAIN v.bands : TRUE
  IN [props |-> <<>>,
      bands |-> [b \in {ub} |->
                   [p \in Pixels |->
                      IF u.bands[ub][p] = Null \/ v.bands[vb][p] = Null
                      THEN Null
                      ELSE Some(Isqrt(Val(u.bands[ub][p]) * Val(u.bands[ub][p])
                                      + Val(v.bands[vb][p]) * Val(v.bands[vb][p])))]]]

\* ee.Terrain.slope(dem): a band 'slope' from the elevation differences of
\* neighbouring pixels, masked where the pixel or a neighbour is masked.
TerrainSlope(img) ==
  LET z == img.bands["elevation"]
      d(a, b) == IF a >= b THEN a - b ELSE b - a
  IN [props |-> img.props,
      bands |-> [b \in {"slope"} |->
                   [p \in Pixels |->
                      IF \E q \in Pixels : z[q] = Null THEN Null
                      ELSE Some(d(Val(z[1]), Val(z[2])) \div 10)]]]

\* filterDate with the end included: the off-by-one of a closed interval.
filterDateClosed(collection, start, end) ==
  SelectSeq(collection,
            LAMBDA img : /\ get(img.props, "system:time_start") # Null
                         /\ start <= Val(get(img.props, "system:time_start"))
                         /\ Val(get(img.props, "system:time_start")) <= end)

\* collection.filterDate(start, end): start inclusive, end exclusive, on
\* system:time_start; an image without the property never matches.
filterDate(collection, start, end) ==
  SelectSeq(collection,
            LAMBDA img : /\ get(img.props, "system:time_start") # Null
                         /\ start <= Val(get(img.props, "system:time_start"))
                         /\ Val(get(img.props, "system:time_start")) < end)

\* collection.filter(ee.Filter.calendarRange(lo, hi, 'hour'))
filterCalendarRange(collection, lo, hi) ==
  SelectSeq(collection,
            LAMBDA img : /\ get(img.props, "system:time_start") # Null
                         /\ HourOf(Val(get(img.props, "system:time_start"))) \in lo..hi)

RECURSIVE SumOver(_, _)
SumOver(S, r) ==
  IF S = {} THEN 0
  ELSE LET p == CHOOSE q \in S : TRUE IN Val(r[p]) + SumOver(S \ {p}, r)

\* One reducer output over the valid pixels of a band inside the geometry;
\* null when there is none.  The mean is exact on the model's rasters.
Reduce(output, raster, geometry) ==
  LET valid == {p \in geometry : raster[p] # Null} IN
  IF valid = {} THEN Null
  ELSE IF output = "mean" THEN Some(SumOver(valid, raster) \div Cardinality(valid))
  ELSE IF output = "min"
       THEN Some(CHOOSE v \in {Val(raster[p]) : p \in valid} :
                   \A p \in valid : v <= Val(raster[p]))
  ELSE Some(CHOOSE v \in {Val(raster[p]) : p \in valid} :
              \A p \in valid : v >= Val(raster[p]))

\* A reduction that reports 0 where no pixel is valid.
reduceRegionZero(img, reducer, geometry) ==
  LET single == Len(reducer) = 1
      pairs == {<<b, i>> : b \in DOMAIN img.bands, i \in 1..Len(reducer)}
      key(pr) == IF single THEN pr[1] ELSE pr[1] \o "_" \o reducer[pr[2]]
  IN [k \in {key(pr) : pr \in pairs} |->
        LET pr == CHOOSE q \in pairs : key(q) = k
            r == Reduce(reducer[pr[2]], img.bands[pr[1]], geometry)
        IN IF r = Null THEN Some(0) ELSE r]

\* image.reduceRegion({reducer, geometry, scale}): a dictionary with one entry
\* per band and reducer output, keyed by the band name (a single output) or
\* band_output (combined reducers).  reducer is the sequence of its outputs.
reduceRegion(img, reducer, geometry) ==
  LET single == Len(reducer) = 1
      pairs == {<<b, i>> : b \in DOMAIN img.bands, i \in 1..Len(reducer)}
      key(pr) == IF single THEN pr[1] ELSE pr[1] \o "_" \o reducer[pr[2]]
  IN [k \in {key(pr) : pr \in pairs} |->
        LET pr == CHOOSE q \in pairs : key(q) = k
        IN Reduce(reducer[pr[2]], img.bands[pr[1]], geometry)]

\* ee.Algorithms.If(condition, trueCase, falseCase): a null condition is false.
eeIf(condition, trueCase, falseCase) ==
  IF condition # Null THEN trueCase ELSE falseCase

\* ------------------------------------------------ section 1: data loading

FeatureProperties == {"ID", "CONT_DATE", "Lat", "Long", "D_Road", "D_Water"}

Fire == fcSelect(assets.FireNew, FeatureProperties)

NonFire == fcSelect(assets.Non_FireNew, FeatureProperties)

ndvi == assets.MOD09GA_NDVI

\* img.multiply(0.02).subtract(273.15).copyProperties(img, [...])
toCelsius(img) ==
  copyProperties(imgLinear(img, LstScale, KelvinOffset), img,
                 {"system:time_start", "system:time_end"})

temperature ==
  [i \in 1..Len(assets.MOD11A1) |->
     toCelsius(imgSelect(assets.MOD11A1[i], {"LST_Day_1km"}))]

ERA5 == filterCalendarRange(assets.ERA5_LAND, Era5Hour, Era5Hour)

dem == imgSelect(assets.NASADEM, {"elevation"})

slope == TerrainSlope(dem)

population == assets.GPW

\* --------------------------------------------- section 2: extractData

\* The date windows of an event.
Windows(fireDate) ==
  [start |-> advance(fireDate, -WindowDays, "day"),
   end |-> advance(fireDate, WindowDays, "day"),
   popStart |-> advance(fireDate, -PopWindowYears, "year"),
   popEnd |-> advance(fireDate, PopWindowYears, "year")]

\* The properties, the geometry and the windows of the event.  error: the
\* ID matches no feature of the collection (first() is null and has no
\* geometry) or CONT_DATE is no date; Earth Engine raises an error there.
Locals(feature, featureCollection) ==
  LET id == get(feature.props, "ID")
      match == first(fcFilterEq(featureCollection, "ID", id))
      fireDate == eeDate(get(feature.props, "CONT_DATE"))
  IN IF match = Null \/ fireDate = Null THEN [error |-> TRUE]
     ELSE [error |-> FALSE,
           id |-> id,
           latitude |-> get(feature.props, "Lat"),
           longitude |-> get(feature.props, "Long"),
           Dis_Road |-> get(feature.props, "D_Road"),
           Dis_Water |-> get(feature.props, "D_Water"),
           geometry |-> Val(match).geometry,
           fireDate |-> Val(fireDate),
           start |-> Windows(Val(fireDate)).start,
           end |-> Windows(Val(fireDate)).end,
           popStart |-> Windows(Val(fireDate)).popStart,
           popEnd |-> Windows(Val(fireDate)).popEnd]

\* The representative snapshot of a source in a window, or null.
Locate(collection, start, end) == first(filterDate(collection, start, end))

\* The images of the four time-indexed sources, each possibly null, with the
\* four collections as arguments.
ImagesOf(L, temperatureC, ndviC, populationC, ERA5C) ==
  [temperatureImage |-> Locate(temperatureC, L.start, L.end),
   ndviImage |-> Locate(ndviC, L.start, L.end),
   populationImage |-> Locate(populationC, L.popStart, L.popEnd),
   ERA5Image |-> Locate(ERA5C, L.start, L.end)]

\* The images of the event, from the script's collections.
Images(L) == ImagesOf(L, temperature, ndvi, population, ERA5)

\* The temperature statistics falling back to zeros.
tempStatsZero(temperatureImage, geometry) ==
  eeIf(temperatureImage,
       reduceRegion(Val(temperatureImage), <<"mean", "min", "max">>, geometry),
       [LST_Day_1km_mean |-> Some(0), LST_Day_1km_min |-> Some(0),
        LST_Day_1km_max |-> Some(0)])

tempStats(temperatureImage, geometry) ==
  eeIf(temperatureImage,
       reduceRegion(Val(temperatureImage), <<"mean", "min", "max">>, geometry),
       [LST_Day_1km_mean |-> Null, LST_Day_1km_min |-> Null,
        LST_Day_1km_max |-> Null])

ndviMean(ndviImage, geometry) ==
  eeIf(ndviImage,
       reduceRegion(Val(ndviImage), <<"mean">>, geometry)["NDVI"],
       Null)

popMean(populationImage, geometry) ==
  eeIf(populationImage,
       reduceRegion(Val(populationImage), <<"mean">>, geometry)["population_density"],
       Null)

era5Stats(ERA5Image, geometry) ==
  eeIf(ERA5Image,
       [wind |->
          reduceRegion(
            windExpression(
              imgSelect(Val(ERA5Image), {"u_component_of_wind_10m"}),
              imgSelect(Val(ERA5Image), {"v_component_of_wind_10m"})),
            <<"mean">>, geometry)["u_component_of_wind_10m"],
        evap |->
          reduceRegion(imgSelect(Val(ERA5Image), {"total_evaporation_hourly"}),
                       <<"mean">>, geometry)["total_evaporation_hourly"],
        precip |->
          reduceRegion(imgSelect(Val(ERA5Image), {"total_precipitation_hourly"}),
                       <<"mean">>, geometry)["total_precipitation_hourly"]],
       [wind |-> Null, evap |-> Null, precip |-> Null])

slopeMean(geometry) == reduceRegion(slope, <<"mean">>, geometry)["slope"]

elevationMean(geometry) == reduceRegion(dem, <<"mean">>, geometry)["elevation"]

\* The reductions of an event, from its images and its geometry.
Stats(L, I) ==
  [tempStats |-> tempStats(I.temperatureImage, L.geometry),
   ndviMean |-> ndviMean(I.ndviImage, L.geometry),
   popMean |-> popMean(I.populationImage, L.geometry),
   era5Stats |-> era5Stats(I.ERA5Image, L.geometry),
   slopeMean |-> slopeMean(L.geometry),
   elevationMean |-> elevationMean(L.geometry)]

\* The record with the evaporation left out.
NewFeatureShort(L, S, fireStatus) ==
  [geometry |-> Null,
   props |-> [ID |-> L.id,
              creationDate |-> Some(L.start),
              Lat |-> L.latitude, Long |-> L.longitude,
              temperatureMean |-> S.tempStats["LST_Day_1km_mean"],
              Min_Temperature |-> S.tempStats["LST_Day_1km_min"],
              Max_Temperature |-> S.tempStats["LST_Day_1km_max"],
              ndviMean |-> S.ndviMean,
              slope |-> S.slopeMean,
              elevation |-> S.elevationMean,
              Dis_Road |-> L.Dis_Road,
              Dis_Water |-> L.Dis_Water,
              population |-> S.popMean,
              windspeed |-> S.era5Stats["wind"],
              precipitation |-> S.era5Stats["precip"],
              fire |-> Some(fireStatus)]]

\* The record with the precipitation taken from the wrong variable.
NewFeatureMixed(L, S, fireStatus) ==
  [geometry |-> Null,
   props |-> [ID |-> L.id,
              creationDate |-> Some(L.start),
              Lat |-> L.latitude, Long |-> L.longitude,
              temperatureMean |-> S.tempStats["LST_Day_1km_mean"],
              Min_Temperature |-> S.tempStats["LST_Day_1km_min"],
              Max_Temperature |-> S.tempStats["LST_Day_1km_max"],
              ndviMean |-> S.ndviMean,
              slope |-> S.slopeMean,
              elevation |-> S.elevationMean,
              Dis_Road |-> L.Dis_Road,
              Dis_Water |-> L.Dis_Water,
              population |-> S.popMean,
              windspeed |-> S.era5Stats["wind"],
              evaporation |-> S.era5Stats["evap"],
              precipitation |-> S.popMean,
              fire |-> Some(fireStatus)]]

\* ee.Feature(null, {...}): the returned record.
NewFeature(L, S, fireStatus) ==
  [geometry |-> Null,
   props |-> [ID |-> L.id,
              creationDate |-> Some(L.start),
              Lat |-> L.latitude, Long |-> L.longitude,
              temperatureMean |-> S.tempStats["LST_Day_1km_mean"],
              Min_Temperature |-> S.tempStats["LST_Day_1km_min"],
              Max_Temperature |-> S.tempStats["LST_Day_1km_max"],
              ndviMean |-> S.ndviMean,
              slope |-> S.slopeMean,
              elevation |-> S.elevationMean,
              Dis_Road |-> L.Dis_Road,
              Dis_Water |-> L.Dis_Water,
              population |-> S.popMean,
              windspeed |-> S.era5Stats["wind"],
              evaporation |-> S.era5Stats["evap"],
              precipitation |-> S.era5Stats["precip"],
              fire |-> Some(fireStatus)]]

\* extractData as one evaluation; null stands for the error of Locals.
extractData(feature, featureCollection, fireStatus) ==
  LET L == Locals(feature, featureCollection) IN
  IF L.error THEN Null
  ELSE Some(NewFeature(L, Stats(L, Images(L)), fireStatus))

\* ------------------------------------- section 3: the mappings and exports

\* The NonFire mapping pasted from the Fire one and left unedited.
NonFireVariablesPasted ==
  [source |-> NonFire, featureCollection |-> Fire, fireStatus |-> 1]

\* Fire.map(function(feature) { return extractData(feature, Fire, 1); })
FireVariables ==
  [source |-> Fire, featureCollection |-> Fire, fireStatus |-> 1]

\* NonFire.map(function(feature) { return extractData(feature, NonFire, 0); })
NonFireVariables ==
  [source |-> NonFire, featureCollection |-> NonFire, fireStatus |-> 0]

selectors ==
  <<"ID", "creationDate", "Lat", "Long", "temperatureMean", "Min_Temperature",
    "Max_Temperature", "ndviMean", "slope", "elevation", "Dis_Water", "Dis_Road",
    "population", "windspeed", "evaporation", "precipitation", "fire">>

\* The export tasks, by their description.
Exports == {"Fire_Data_Corrected", "Non_Fire_Data_Corrected"}

ExportCollection(d) ==
  IF d = "Fire_Data_Corrected" THEN FireVariables ELSE NonFireVariables

\* The elements an export task maps over: <<description, index>>.
Elements(d) == {<<d, i>> : i \in 1..Len(ExportCollection(d).source)}

AllElements == UNION {Elements(d) : d \in Exports}

InputOf(e) == ExportCollection(e[1]).source[e[2]]

\* One line of the table: the selected columns of a feature, a missing
\* property giving an empty cell.
Row(feature) == [i \in 1..Len(selectors) |-> get(feature.props, selectors[i])]

\* ------------------------------------------------ the assets of the store

\* The instant of a civil date and hour.
At(y, m, d, h) == DaysFromCivil(y, m, d) * 24 + h

\* Acquisition instants the catalogs draw from: around 2020-07-04 for the
\* daily and hourly sources (the hourly ones at 14:00 and one at 00:00), and
\* around the three-year marks for the population source.
DailyTimes ==
  <<At(2020, 7, 2, 0), At(2020, 7, 3, 0), At(2020, 7, 4, 0), At(2020, 7, 5, 0)>>

HourlyTimes ==
  <<At(2020, 7, 2, 14), At(2020, 7, 3, 0), At(2020, 7, 3, 14),
    At(2020, 7, 4, 14), At(2020, 7, 5, 14)>>

PopTimes ==
  <<At(2015, 1, 1, 0), At(2017, 7, 4, 0), At(2020, 1, 1, 0), At(2023, 7, 4, 0)>>

TimeProps(t, length) ==
  [n \in {"system:time_start", "system:time_end", "system:index"} |->
     IF n = "system:time_start" THEN Some(t)
     ELSE IF n = "system:time_end" THEN Some(t + length) ELSE Some(t \div 24)]

\* A band: the given values on the pixels outside masked, null inside.
Band(masked, values) ==
  [p \in Pixels |-> IF p \in masked THEN Null ELSE Some(values[p])]

\* The j-th snapshot of each catalog; its pixel values tell the snapshots and
\* the pixels apart.  The land surface temperature of snapshot 3 at pixel 1
\* is 15500 (310 K).
LstSnapshot(j, masked) ==
  [props |-> TimeProps(DailyTimes[j], 24),
   bands |-> [LST_Day_1km |->
                Band(masked, [p \in Pixels |-> 15200 + 100 * j + 200 * (p - 1)]),
              QC_Day |-> Band({}, [p \in Pixels |-> 0])]]

NdviSnapshot(j, masked) ==
  [props |-> TimeProps(DailyTimes[j], 24),
   bands |-> [NDVI |-> Band(masked, [p \in Pixels |-> 20 * j + 2000 * p])]]

PopSnapshot(j, masked) ==
  [props |-> TimeProps(PopTimes[j], 24 * 365),
   bands |-> [population_density |->
                Band(masked, [p \in Pixels |-> 2 * j + 20 * p])]]

Era5Snapshot(j, masked) ==
  [props |-> TimeProps(HourlyTimes[j], 1),
   bands |-> [u_component_of_wind_10m |->
                Band(masked, [p \in Pixels |-> IF p = 1 THEN 3 * j ELSE 5 * j]),
              v_component_of_wind_10m |->
                Band(masked, [p \in Pixels |-> IF p = 1 THEN 4 * j ELSE 12 * j]),
              total_evaporation_hourly |->
                Band(masked, [p \in Pixels |-> 0 - 2 * j * p]),
              total_precipitation_hourly |->
                Band(masked, [p \in Pixels |-> 2 * j * (p + 1)])]]

DemImage(masked) ==
  [props |-> <<>>,
   bands |-> [elevation |-> Band(masked, [p \in Pixels |-> 100 + 200 * (p - 1)]),
              num |-> Band({}, [p \in Pixels |-> 1])]]

RECURSIVE Ascending(_)
Ascending(S) ==
  IF S = {} THEN <<>>
  ELSE LET m == CHOOSE x \in S : \A y \in S : x <= y
       IN <<m>> \o Ascending(S \ {m})

\* The catalogs: the snapshots numbered in S, in order of acquisition.
LstCatalog(S, masked) ==
  [i \in 1..Cardinality(S) |-> LstSnapshot(Ascending(S)[i], masked)]

NdviCatalog(S, masked) ==
  [i \in 1..Cardinality(S) |-> NdviSnapshot(Ascending(S)[i], masked)]

PopCatalog(S, masked) ==
  [i \in 1..Cardinality(S) |-> PopSnapshot(Ascending(S)[i], masked)]

Era5Catalog(S, masked) ==
  [i \in 1..Cardinality(S) |-> Era5Snapshot(Ascending(S)[i], masked)]

\* CONT_DATE values: three dates, and one that is no date (month 13).
Date1 == Some([y |-> 2020, m |-> 7, d |-> 4, h |-> 0])
Date2 == Some([y |-> 2019, m |-> 3, d |-> 1, h |-> 0])
Date3 == Some([y |-> 2020, m |-> 7, d |-> 4, h |-> 14])
NoDate == Some([y |-> 2020, m |-> 13, d |-> 4, h |-> 0])

\* An event of the input assets; i is its place in the collection.
Event(i, id, date, geometry) ==
  [geometry |-> geometry,
   props |-> [ID |-> id, CONT_DATE |-> date,
              Lat |-> Some(4000 + i), Long |-> Some(0 - 12000 - i),
              D_Road |-> Some(100 * i + 7), D_Water |-> Some(100 * i + 9),
              NAME |-> Some(i)]]

\* The kinds of event a batch is made of: a well-formed one inside the
\* coverage of every catalog, a well-formed one outside the coverage of the
\* daily and hourly catalogs, one whose CONT_DATE is no date, one without an ID.
EventKinds == {"day", "uncovered", "nodate", "noid"}

EventOf(kind, i) ==
  IF kind = "day" THEN Event(i, Some(i), Date1, {1})
  ELSE IF kind = "uncovered" THEN Event(i, Some(i), Date2, {1, 2})
  ELSE IF kind = "nodate" THEN Event(i, Some(i), NoDate, {1})
  ELSE Event(i, Null, Date1, {1})

Sources == {"temperature", "ndvi", "population", "ERA5", "dem"}

Store(fire, nonfire, tS, nS, pS, eS, masked) ==
  [FireNew |-> fire,
   Non_FireNew |-> nonfire,
   MOD11A1 |-> LstCatalog(tS, masked["temperature"]),
   MOD09GA_NDVI |-> NdviCatalog(nS, masked["ndvi"]),
   GPW |-> PopCatalog(pS, masked["population"]),
   ERA5_LAND |-> Era5Catalog(eS, masked["ERA5"]),
   NASADEM |-> DemImage(masked["dem"])]

Unmasked == [s \in Sources |-> {}]

\* Catalogs around the window bounds: one source's catalog is any subset of
\* its instants, the others are complete; one Fire event at each date.
WindowStores ==
  LET all == <<1..4, 1..4, 1..4, 1..5>>
      varied == {[all EXCEPT ![k] = S] : k \in 1..3, S \in SUBSET (1..4)}
                  \cup {[all EXCEPT ![4] = S] : S \in SUBSET (1..5)}
  IN {Store(<<Event(1, Some(1), date, {1, 2})>>, <<>>, c[1], c[2], c[3], c[4], Unmasked) :
        date \in {Date1, Date2, Date3}, c \in varied}

\* Coverage: each time-indexed catalog complete or empty, pixel 2 masked in
\* no source, in one, or in all; one event over each geometry, in the Fire
\* or in the NonFire collection.
CoverageStores ==
  LET maskings == {Unmasked, [s \in Sources |-> {2}]}
                    \cup {[s \in Sources |-> IF s = m THEN {2} ELSE {}] : m \in Sources}
      some(S, present) == IF present THEN S ELSE {}
      events(g) == <<Event(1, Some(1), Date1, g)>>
  IN {Store(IF fire THEN events(g) ELSE <<>>, IF fire THEN <<>> ELSE events(g),
            some(1..4, b[1]), some(1..4, b[2]), some(1..4, b[3]), some(1..5, b[4]), mk) :
        fire \in BOOLEAN, g \in {{1}, {2}, {1, 2}}, b \in [1..4 -> BOOLEAN],
        mk \in maskings}

\* Batches: Fire of one to MaxEvents events of any kinds, NonFire of one
\* well-formed event with the ID of the first Fire event and another geometry.
BatchStores ==
  {Store([i \in 1..n |-> EventOf(kinds[i], i)],
         <<Event(1, Some(1), Date1, {2})>>, 1..4, 1..4, 1..4, 1..5, Unmasked) :
     n \in 1..MaxEvents, kinds \in [1..MaxEvents -> EventKinds]}

\* ------------------------------------------------------------ the program

\* The script evaluated over a store: both export tasks ready, nothing run.
Loaded(stores) ==
  /\ assets \in stores
  /\ pc = [e \in AllElements |-> "idle"]
  /\ frame = [e \in AllElements |-> <<>>]
  /\ result = [e \in AllElements |-> Null]
  /\ task = [d \in Exports |-> [state |-> "READY", rows |-> <<>>]]
  /\ runs = [d \in Exports |-> 0]
  /\ previous = [d \in Exports |-> Null]

\* The batches.
Init == Loaded(BatchStores)

\* One event against every catalog of the window and coverage stores.
InitSources == Loaded(WindowStores \cup CoverageStores)

\* The task is run from the Tasks tab (again, when it was run before): the
\* server evaluates the mapped collection afresh.
RunTask(d) ==
  /\ task[d].state # "RUNNING"
  /\ runs[d] < MaxRuns
  /\ runs' = [runs EXCEPT ![d] = @ + 1]
  /\ previous' = [previous EXCEPT ![d] = IF runs[d] = 0 THEN Null ELSE Some(task[d])]
  /\ task' = [task EXCEPT ![d] = [state |-> "RUNNING", rows |-> <<>>]]
  /\ pc' = [e \in AllElements |-> IF e[1] = d THEN "start" ELSE pc[e]]
  /\ frame' = [e \in AllElements |-> IF e[1] = d THEN <<>> ELSE frame[e]]
  /\ result' = [e \in AllElements |-> IF e[1] = d THEN Null ELSE result[e]]
  /\ UNCHANGED assets

\* geometry and the other locals assigned without var: one global of each,
\* shared by every call.
ReadFeatureShared(e) ==
  /\ task[e[1]].state = "RUNNING"
  /\ pc[e] = "start"
  /\ LET L == Locals(InputOf(e), ExportCollection(e[1]).featureCollection) IN
     IF L.error
     THEN /\ pc' = [pc EXCEPT ![e] = "error"]
          /\ frame' = [frame EXCEPT ![e] = L]
          /\ task' = [task EXCEPT ![e[1]] = [state |-> "FAILED", rows |-> <<>>]]
     ELSE /\ pc' = [pc EXCEPT ![e] = "read"]
          /\ frame' = [x \in AllElements |->
                         IF x = e THEN L
                         ELSE IF pc[x] \in {"read", "found"}
                              THEN [frame[x] EXCEPT !.geometry = L.geometry]
                              ELSE frame[x]]
          /\ task' = task
  /\ UNCHANGED <<assets, result, runs, previous>>

\* Lines 41-55: the properties, the geometry, the windows.  An error in the
\* mapped function fails the task that evaluates the collection.
ReadFeature(e) ==
  /\ task[e[1]].state = "RUNNING"
  /\ pc[e] = "start"
  /\ LET L == Locals(InputOf(e), ExportCollection(e[1]).featureCollection) IN
     IF L.error
     THEN /\ pc' = [pc EXCEPT ![e] = "error"]
          /\ frame' = [frame EXCEPT ![e] = L]
          /\ task' = [task EXCEPT ![e[1]] = [state |-> "FAILED", rows |-> <<>>]]
     ELSE /\ pc' = [pc EXCEPT ![e] = "read"]
          /\ frame' = [frame EXCEPT ![e] = L]
          /\ task' = task
  /\ UNCHANGED <<assets, result, runs, previous>>

\* Lines 58-61: the snapshot of each time-indexed source.
FindImages(e) ==
  /\ task[e[1]].state = "RUNNING"
  /\ pc[e] = "read"
  /\ pc' = [pc EXCEPT ![e] = "found"]
  /\ frame' = [frame EXCEPT ![e] = Images(@) @@ @]
  /\ UNCHANGED <<assets, result, task, runs, previous>>

\* Lines 65-105: the reductions.
ReduceRegions(e) ==
  /\ task[e[1]].state = "RUNNING"
  /\ pc[e] = "found"
  /\ pc' = [pc EXCEPT ![e] = "reduced"]
  /\ frame' = [frame EXCEPT ![e] = Stats(@, @) @@ @]
  /\ UNCHANGED <<assets, result, task, runs, previous>>

\* creationDate taken from the clock of the run instead of the window.
ReturnFeatureClock(e) ==
  /\ task[e[1]].state = "RUNNING"
  /\ pc[e] = "reduced"
  /\ pc' = [pc EXCEPT ![e] = "done"]
  /\ result' = [result EXCEPT ![e] =
                  Some(NewFeature([frame[e] EXCEPT !.start = @ + runs[e[1]]], frame[e],
                                  ExportCollection(e[1]).fireStatus))]
  /\ UNCHANGED <<assets, frame, task, runs, previous>>

\* Lines 108-125: the record of the event.
ReturnFeature(e) ==
  /\ task[e[1]].state = "RUNNING"
  /\ pc[e] = "reduced"
  /\ pc' = [pc EXCEPT ![e] = "done"]
  /\ result' = [result EXCEPT ![e] =
                  Some(NewFeature(frame[e], frame[e],
                                  ExportCollection(e[1]).fireStatus))]
  /\ UNCHANGED <<assets, frame, task, runs, previous>>

\* Export.table.toDrive: the table of the mapped collection, one line per
\* element, in the collection's order.
CompleteTask(d) ==
  /\ task[d].state = "RUNNING"
  /\ \A e \in Elements(d) : pc[e] = "done"
  /\ task' = [task EXCEPT ![d] =
                [state |-> "COMPLETED",
                 rows |-> [i \in 1..Len(ExportCollection(d).source) |->
                             Row(Val(result[<<d, i>>]))]]]
  /\ UNCHANGED <<assets, pc, frame, result, runs, previous>>

Next ==
  \/ \E d \in Exports : RunTask(d)
  \/ \E e \in AllElements : ReadFeature(e)
  \/ \E e \in AllElements : FindImages(e)
  \/ \E e \in AllElements : ReduceRegions(e)
  \/ \E e \in AllElements : ReturnFeature(e)
  \/ \E d \in Exports : CompleteTask(d)

Spec == Init /\ [][Next]_vars

SpecSources == InitSources /\ [][Next]_vars

\* ------------------------------------------------------------- properties

\* The record returned for an element, and the fields of its CONT_DATE.
Rec(e) == Val(result[e]).props

DateOf(e) == Val(InputOf(e).props["CONT_DATE"])

\* The event has an ID and a CONT_DATE that is a date.
WellFormed(e) ==
  /\ InputOf(e).props["ID"] # Null
  /\ DateOf(e).m \in 1..12

\* The acquisition instant of a snapshot.
TimeOf(img) == Val(img.props["system:time_start"])

\* The places of the catalog whose snapshot lies in [lo, hi).
Inside(catalog, lo, hi) ==
  {i \in 1..Len(catalog) : lo <= TimeOf(catalog[i]) /\ TimeOf(catalog[i]) < hi}

\* The bounds of the two windows of an event, from the fields of its date.
DayLo(e) == At(DateOf(e).y, DateOf(e).m, DateOf(e).d, DateOf(e).h) - 24
DayHi(e) == At(DateOf(e).y, DateOf(e).m, DateOf(e).d, DateOf(e).h) + 24
YearLo(e) == At(DateOf(e).y - 3, DateOf(e).m, DateOf(e).d, DateOf(e).h)
YearHi(e) == At(DateOf(e).y + 3, DateOf(e).m, DateOf(e).d, DateOf(e).h)

OutputFields ==
  {"ID", "creationDate", "Lat", "Long", "temperatureMean", "Min_Temperature",
   "Max_Temperature", "ndviMean", "slope", "elevation", "Dis_Water", "Dis_Road",
   "population", "windspeed", "evaporation", "precipitation", "fire"}

\* C1: every record extractData returns has exactly the 17 output fields,
\* whatever snapshots the four time-indexed sources have, and every line of
\* an exported table has the 17 selected columns, each one a field of the record.
C1_ExactFields ==
  /\ \A e \in AllElements :
       result[e] # Null =>
         /\ DOMAIN Rec(e) = OutputFields
         /\ Cardinality(DOMAIN Rec(e)) = 17
         /\ {selectors[i] : i \in 1..Len(selectors)} = DOMAIN Rec(e)
  /\ \A d \in Exports : \A i \in 1..Len(task[d].rows) : Len(task[d].rows[i]) = 17

\* A record returned when none of the four sources has a snapshot.
C1_Witness ==
  \E e \in AllElements :
    /\ pc[e] = "done"
    /\ frame[e].temperatureImage = Null /\ frame[e].ndviImage = Null
    /\ frame[e].populationImage = Null /\ frame[e].ERA5Image = Null
    /\ DOMAIN Rec(e) = OutputFields

\* C2: when the window of a time-indexed source holds no snapshot of its
\* catalog, the fields of that source are null in the returned record, and
\* the extraction of a well-formed event never ends in an error.
C2_AbsentGivesNull ==
  \A e \in AllElements :
    /\ pc[e] = "error" => ~WellFormed(e)
    /\ pc[e] = "done" =>
         /\ Inside(assets.MOD11A1, DayLo(e), DayHi(e)) = {} =>
              /\ Rec(e)["temperatureMean"] = Null
              /\ Rec(e)["Min_Temperature"] = Null
              /\ Rec(e)["Max_Temperature"] = Null
         /\ Inside(assets.MOD09GA_NDVI, DayLo(e), DayHi(e)) = {} =>
              Rec(e)["ndviMean"] = Null
         /\ Inside(assets.GPW, YearLo(e), YearHi(e)) = {} =>
              Rec(e)["population"] = Null
         /\ Inside(assets.ERA5_LAND, DayLo(e), DayHi(e)) = {} =>
              /\ Rec(e)["windspeed"] = Null
              /\ Rec(e)["evaporation"] = Null
              /\ Rec(e)["precipitation"] = Null

\* A record whose temperature window is empty while the other sources have
\* snapshots and values.
C2_Witness ==
  \E e \in AllElements :
    /\ pc[e] = "done"
    /\ Inside(assets.MOD11A1, DayLo(e), DayHi(e)) = {}
    /\ assets.MOD11A1 # <<>>
    /\ Rec(e)["temperatureMean"] = Null
    /\ Rec(e)["ndviMean"] # Null
    /\ Rec(e)["windspeed"] # Null

\* What a lookup must give: null exactly when no snapshot of the collection
\* lies in [lo, hi), and otherwise a snapshot that lies in it.
Searched(image, collection, lo, hi) ==
  /\ image = Null <=> Inside(collection, lo, hi) = {}
  /\ image # Null => lo <= TimeOf(Val(image)) /\ TimeOf(Val(image)) < hi

\* C4: the temperature, NDVI and ERA5 collections are searched in
\* [T - 1 day, T + 1 day) and the population collection in [T - 3 years,
\* T + 3 years), start included and end excluded, T the event's CONT_DATE.
C4_Windows ==
  \A e \in AllElements :
    pc[e] \in {"found", "reduced", "done"} =>
      /\ frame[e].start = DayLo(e) /\ frame[e].end = DayHi(e)
      /\ frame[e].popStart = YearLo(e) /\ frame[e].popEnd = YearHi(e)
      /\ Searched(frame[e].temperatureImage, temperature, DayLo(e), DayHi(e))
      /\ Searched(frame[e].ndviImage, ndvi, DayLo(e), DayHi(e))
      /\ Searched(frame[e].ERA5Image, ERA5, DayLo(e), DayHi(e))
      /\ Searched(frame[e].populationImage, population, YearLo(e), YearHi(e))

\* The only NDVI snapshot is at T + 1 day and none is found, and the only
\* snapshot of another event's catalog is at T - 1 day and is found.
C4_Witness ==
  \E e \in AllElements :
    /\ pc[e] = "found"
    /\ Len(ndvi) = 1 /\ TimeOf(ndvi[1]) = DayHi(e) /\ frame[e].ndviImage = Null
    /\ \E i \in 1..Len(population) : TimeOf(population[i]) = YearLo(e)
    /\ TimeOf(Val(frame[e].populationImage)) = YearLo(e)
    /\ TimeOf(Val(frame[e].temperatureImage)) = DayLo(e)

\* The first snapshot of a catalog in [lo, hi), in catalog order, or null.
FirstInside(catalog, lo, hi) ==
  IF Inside(catalog, lo, hi) = {} THEN Null
  ELSE Some(catalog[CHOOSE i \in Inside(catalog, lo, hi) :
                      \A j \in Inside(catalog, lo, hi) : i <= j])

\* The hourly catalog restricted to the snapshots acquired at 14:00.
AtFourteen(catalog) == SelectSeq(catalog, LAMBDA img : TimeOf(img) % 24 = 14)

\* The lookups of an element against the catalogs given for the sources.
Located(e, era5Catalog) ==
  pc[e] \in {"found", "reduced", "done"} =>
    /\ frame[e].temperatureImage = FirstInside(temperature, DayLo(e), DayHi(e))
    /\ frame[e].ndviImage = FirstInside(assets.MOD09GA_NDVI, DayLo(e), DayHi(e))
    /\ frame[e].populationImage = FirstInside(assets.GPW, YearLo(e), YearHi(e))
    /\ frame[e].ERA5Image = FirstInside(era5Catalog, DayLo(e), DayHi(e))

\* C10 as stated: each lookup returns the first snapshot of the source's
\* catalog inside the window, null if and only if there is none; for ERA5 the
\* catalog is the hourly dataset.
C10_FirstOfCatalog == \A e \in AllElements : Located(e, assets.ERA5_LAND)

\* C10 amended: the same, the ERA5 catalog being the hourly dataset restricted
\* to the snapshots acquired at 14:00; and no step changes a catalog.
C10_FirstOfFiltered ==
  /\ [](\A e \in AllElements : Located(e, AtFourteen(assets.ERA5_LAND)))
  /\ [][assets' = assets]_vars

\* Snapshots at T - 1 day and at T are both in the catalog and the one at
\* T - 1 day is used; the ERA5 snapshot used is the one at 14:00 although an
\* earlier one lies in the window.
C10_Witness ==
  \E e \in AllElements :
    /\ pc[e] = "found"
    /\ \E i, j \in 1..Len(temperature) :
         /\ TimeOf(temperature[i]) = DayLo(e)
         /\ TimeOf(temperature[j]) = DayLo(e) + 24
    /\ TimeOf(Val(frame[e].temperatureImage)) = DayLo(e)
    /\ \E i \in 1..Len(assets.ERA5_LAND) :
         /\ DayLo(e) <= TimeOf(assets.ERA5_LAND[i])
         /\ TimeOf(assets.ERA5_LAND[i]) < TimeOf(Val(frame[e].ERA5Image))

\* The elements of an export whose event is not well-formed.
Malformed(d) == {e \in Elements(d) : ~WellFormed(e)}

\* C3: a collection of N >= 2 events of which exactly one is malformed is
\* exported as a table of N - 1 lines, one per well-formed event.
C3_BatchIsolation ==
  \A d \in Exports :
    (/\ task[d].state \in {"COMPLETED", "FAILED"}
     /\ Cardinality(Elements(d)) >= 2
     /\ Cardinality(Malformed(d)) = 1)
    => /\ task[d].state = "COMPLETED"
       /\ Len(task[d].rows) = Cardinality(Elements(d)) - 1

\* No pixel of the band inside the geometry is valid.
NoValidPixel(raster, geometry) == \A p \in geometry : raster[p] = Null

\* C5: where the snapshot found for a source (or a static raster) has no
\* valid pixel inside the event's geometry, the fields of the source are what
\* the no-snapshot case gives, null, and the record is returned all the same.
C5_GapEquivalence ==
  \A e \in AllElements :
    pc[e] = "done" =>
      LET g == InputOf(e).geometry
          F == frame[e]
      IN /\ (/\ F.temperatureImage # Null
             /\ NoValidPixel(Val(F.temperatureImage).bands["LST_Day_1km"], g))
            => /\ Rec(e)["temperatureMean"] = tempStats(Null, g)["LST_Day_1km_mean"]
               /\ Rec(e)["Min_Temperature"] = tempStats(Null, g)["LST_Day_1km_min"]
               /\ Rec(e)["Max_Temperature"] = tempStats(Null, g)["LST_Day_1km_max"]
               /\ Rec(e)["temperatureMean"] = Null
               /\ Rec(e)["Min_Temperature"] = Null
               /\ Rec(e)["Max_Temperature"] = Null
         /\ (/\ F.ndviImage # Null
             /\ NoValidPixel(Val(F.ndviImage).bands["NDVI"], g))
            => /\ Rec(e)["ndviMean"] = ndviMean(Null, g)
               /\ Rec(e)["ndviMean"] = Null
         /\ (/\ F.populationImage # Null
             /\ NoValidPixel(Val(F.populationImage).bands["population_density"], g))
            => /\ Rec(e)["population"] = popMean(Null, g)
               /\ Rec(e)["population"] = Null
         /\ (/\ F.ERA5Image # Null
             /\ \A p \in g :
                  \/ Val(F.ERA5Image).bands["u_component_of_wind_10m"][p] = Null
                  \/ Val(F.ERA5Image).bands["v_component_of_wind_10m"][p] = Null)
            => /\ Rec(e)["windspeed"] = era5Stats(Null, g)["wind"]
               /\ Rec(e)["windspeed"] = Null
         /\ (/\ F.ERA5Image # Null
             /\ NoValidPixel(Val(F.ERA5Image).bands["total_evaporation_hourly"], g))
            => /\ Rec(e)["evaporation"] = era5Stats(Null, g)["evap"]
               /\ Rec(e)["evaporation"] = Null
         /\ (/\ F.ERA5Image # Null
             /\ NoValidPixel(Val(F.ERA5Image).bands["total_precipitation_hourly"], g))
            => /\ Rec(e)["precipitation"] = era5Stats(Null, g)["precip"]
               /\ Rec(e)["precipitation"] = Null
         /\ NoValidPixel(dem.bands["elevation"], g) => Rec(e)["elevation"] = Null
         /\ NoValidPixel(slope.bands["slope"], g) => Rec(e)["slope"] = Null

\* A record for a geometry on the masked pixel of a temperature snapshot that
\* was found, the population having a value there.
C5_Witness ==
  \E e \in AllElements :
    /\ pc[e] = "done"
    /\ frame[e].temperatureImage # Null
    /\ NoValidPixel(Val(frame[e].temperatureImage).bands["LST_Day_1km"],
                    InputOf(e).geometry)
    /\ Rec(e)["temperatureMean"] = Null
    /\ Rec(e)["population"] # Null
    /\ Rec(e)["elevation"] # Null

\* The record of an element had the population catalog been empty and
\* everything else the same.
WithoutPopulation(e) ==
  NewFeature(frame[e],
             Stats(frame[e], ImagesOf(frame[e], temperature, ndvi, <<>>, ERA5)),
             ExportCollection(e[1]).fireStatus).props

Alone(e) ==
  extractData(InputOf(e), ExportCollection(e[1]).featureCollection,
              ExportCollection(e[1]).fireStatus)

\* C7: in every interleaving of the extractions, the record of each event is
\* the one extractData gives for it alone, and a completed table holds these
\* records in the collection's order.
C7_OrderIndependent ==
  /\ \A e \in AllElements : result[e] # Null => result[e] = Alone(e)
  /\ \A d \in Exports :
       task[d].state = "COMPLETED" =>
         task[d].rows = [i \in 1..Len(ExportCollection(d).source) |->
                           Row(Val(Alone(<<d, i>>)))]

\* A later event of a collection is done while an earlier one, with another
\* geometry, is between its lookup and its reductions.
C7_Witness ==
  \E d \in Exports : \E e1, e2 \in Elements(d) :
    /\ e1[2] < e2[2]
    /\ pc[e2] = "done" /\ pc[e1] = "found"
    /\ frame[e1].geometry # frame[e2].geometry
    /\ result[e2] = Alone(e2)

\* C8: a task run again over the same assets ends as the run before it did,
\* with the same lines, whatever ran in between.
C8_Idempotent ==
  \A d \in Exports :
    (previous[d] # Null /\ task[d].state \in {"COMPLETED", "FAILED"})
    => task[d] = Val(previous[d])

\* A second run completed with the two lines of the first, the other task
\* having run in between.
C8_Witness ==
  \E d \in Exports :
    /\ previous[d] # Null
    /\ task[d].state = "COMPLETED"
    /\ Len(task[d].rows) = 2
    /\ task[d].rows = Val(previous[d]).rows
    /\ \E o \in Exports \ {d} : runs[o] > 0

\* The event of the input asset an element stands for.
AssetEvent(e) ==
  IF e[1] = "Fire_Data_Corrected" THEN assets.FireNew[e[2]]
  ELSE assets.Non_FireNew[e[2]]

\* C9: the records of the Fire collection have fire = 1 and those of the
\* NonFire collection fire = 0, whatever the coverage and the attributes, and
\* the geometry of each event is the one it has in its own collection.
C9_Label ==
  /\ \A e \in AllElements :
       /\ result[e] # Null =>
            Rec(e)["fire"] = IF e[1] = "Fire_Data_Corrected" THEN Some(1) ELSE Some(0)
       /\ pc[e] \in {"read", "found", "reduced", "done"} =>
            frame[e].geometry = AssetEvent(e).geometry
  /\ \A i \in 1..Len(task["Fire_Data_Corrected"].rows) :
       task["Fire_Data_Corrected"].rows[i][17] = Some(1)
  /\ \A i \in 1..Len(task["Non_Fire_Data_Corrected"].rows) :
       task["Non_Fire_Data_Corrected"].rows[i][17] = Some(0)

\* Both tables completed, the NonFire event sharing its ID with a Fire event
\* of another geometry.
C9_Witness ==
  /\ task["Fire_Data_Corrected"].state = "COMPLETED"
  /\ task["Non_Fire_Data_Corrected"].state = "COMPLETED"
  /\ Len(task["Non_Fire_Data_Corrected"].rows) = 1
  /\ task["Non_Fire_Data_Corrected"].rows[1][17] = Some(0)
  /\ task["Fire_Data_Corrected"].rows[1][17] = Some(1)
  /\ assets.FireNew[1].props["ID"] = assets.Non_FireNew[1].props["ID"]
  /\ assets.FireNew[1].geometry # assets.Non_FireNew[1].geometry

====
